---- MODULE Spec2Model ----
(***************************************************************************)
(* Model of open_clip/factory.py: the model config registry, config        *)
(* preparation, create_model, create_model_and_transforms, and the          *)
(* checkpoint helpers load_state_dict / load_checkpoint.                    *)
(*                                                                         *)
(* Python dicts are functions over string keys.  Objects that the code      *)
(* shares by reference (the registered configs and the copies handed out    *)
(* by get_model_config) live in an explicit heap, so that mutation through  *)
(* an alias is visible.                                                     *)
(***************************************************************************)
EXTENDS Integers, Sequences, FiniteSets, TLC

VARIABLES
    MODEL_CONFIG_PATHS,   \* _MODEL_CONFIG_PATHS: list of paths
    MODEL_CONFIGS,        \* _MODEL_CONFIGS: model name -> address of its config dict
    heap,                 \* address -> dict object
    call,                 \* the last call made: its name and arguments
    ret                   \* what that call returned or raised, and what it did on the way

vars == <<MODEL_CONFIG_PATHS, MODEL_CONFIGS, heap, call, ret>>

---------------------------------------------------------------------------
(* Bounds *)

\* longest _MODEL_CONFIG_PATHS list explored (the initial entry included)
MaxPaths == 2
\* most entries of a checkpoint's state dict
MaxEntries == 2

---------------------------------------------------------------------------
(* Python values *)

None == "<None>"
NoneAddr == <<"None", "None", "None">>

\* truth value of an Optional[str]: None and '' are falsy
Truthy(s) == s # None /\ s # ""

\* dict helpers
Has(d, k) == k \in DOMAIN d
Put(d, k, v) == [x \in DOMAIN d \cup {k} |-> IF x = k THEN v ELSE d[x]]
Del(d, k) == [x \in DOMAIN d \ {k} |-> d[x]]
Get(d, k, default) == IF k \in DOMAIN d THEN d[k] ELSE default
EmptyDict == [x \in {} |-> None]

\* str.lower() on the strings that occur as pretrained tags
Lower(s) ==
    CASE s = "OpenAI" -> "openai"
      [] s = "OPENAI" -> "openai"
      [] OTHER -> s

\* model_name.replace('/', '-') on the model names that occur
ReplaceSlash(s) ==
    CASE s = "ViT-B/32" -> "ViT-B-32"
      [] OTHER -> s

---------------------------------------------------------------------------
(* The file system holding config files: what _rescan_model_configs reads.  *)

VitB32 ==
    [embed_dim |-> 512,
     vision_cfg |-> [image_size |-> 224, layers |-> 12],
     text_cfg |-> [width |-> 512]]
VitB32Extra ==
    [embed_dim |-> 512,
     vision_cfg |-> [image_size |-> 336, layers |-> 12],
     text_cfg |-> [width |-> 512]]
TimmRN50 ==
    [embed_dim |-> 512,
     vision_cfg |-> [image_size |-> 224, timm_model_name |-> "resnet50"],
     text_cfg |-> [width |-> 512]]
RobertaViT ==
    [embed_dim |-> 512,
     vision_cfg |-> [image_size |-> 224, layers |-> 12],
     text_cfg |-> [hf_model_name |-> "roberta-base"]]
CustomViT ==
    [embed_dim |-> 512, custom_text |-> TRUE,
     vision_cfg |-> [image_size |-> 224, layers |-> 12],
     text_cfg |-> [width |-> 512]]
TowerOpenai ==
    [embed_dim |-> 256,
     vision_cfg |-> [model_name |-> "ViT-B-32"],
     text_cfg |-> [width |-> 256]]
TowerLaion ==
    [embed_dim |-> 256,
     vision_cfg |-> [model_name |-> "ViT-B-32", pretrained |-> "laion400m"],
     text_cfg |-> [width |-> 256]]
TowerMissing ==
    [embed_dim |-> 256,
     vision_cfg |-> [model_name |-> "ViT-Z-99"],
     text_cfg |-> [width |-> 256]]
TimmTower ==
    [embed_dim |-> 256,
     vision_cfg |-> [image_size |-> 224, timm_model_name |-> "resnet50", model_name |-> "ViT-Z-99"],
     text_cfg |-> [width |-> 256]]
PreOnly ==
    [embed_dim |-> 256,
     vision_cfg |-> [image_size |-> 224, pretrained |-> "laion400m"],
     text_cfg |-> [width |-> 256]]
VitZ99 ==
    [embed_dim |-> 128,
     vision_cfg |-> [image_size |-> 448, layers |-> 2],
     text_cfg |-> [width |-> 128]]
\* a json file that is no model config: text_cfg is missing
Broken ==
    [embed_dim |-> 64,
     vision_cfg |-> [image_size |-> 64]]

\* every file: its directory, stem, suffix and parsed content
FILES ==
    { [path |-> "model_configs/ViT-B-32.json", dir |-> "model_configs", stem |-> "ViT-B-32", suffix |-> ".json", json |-> VitB32],
      [path |-> "model_configs/timm-rn50.json", dir |-> "model_configs", stem |-> "timm-rn50", suffix |-> ".json", json |-> TimmRN50],
      [path |-> "model_configs/roberta-ViT.json", dir |-> "model_configs", stem |-> "roberta-ViT", suffix |-> ".json", json |-> RobertaViT],
      [path |-> "model_configs/custom-ViT.json", dir |-> "model_configs", stem |-> "custom-ViT", suffix |-> ".json", json |-> CustomViT],
      [path |-> "model_configs/tower-openai.json", dir |-> "model_configs", stem |-> "tower-openai", suffix |-> ".json", json |-> TowerOpenai],
      [path |-> "model_configs/tower-laion.json", dir |-> "model_configs", stem |-> "tower-laion", suffix |-> ".json", json |-> TowerLaion],
      [path |-> "model_configs/tower-missing.json", dir |-> "model_configs", stem |-> "tower-missing", suffix |-> ".json", json |-> TowerMissing],
      [path |-> "model_configs/timm-tower.json", dir |-> "model_configs", stem |-> "timm-tower", suffix |-> ".json", json |-> TimmTower],
      [path |-> "model_configs/pre-only.json", dir |-> "model_configs", stem |-> "pre-only", suffix |-> ".json", json |-> PreOnly],
      [path |-> "extra/ViT-B-32.json", dir |-> "extra", stem |-> "ViT-B-32", suffix |-> ".json", json |-> VitB32Extra],
      [path |-> "extra/broken.json", dir |-> "extra", stem |-> "broken", suffix |-> ".json", json |-> Broken],
      [path |-> "extra/notes.txt", dir |-> "extra", stem |-> "notes", suffix |-> ".txt", json |-> Broken],
      [path |-> "more/ViT-Z-99.json", dir |-> "more", stem |-> "ViT-Z-99", suffix |-> ".json", json |-> VitZ99] }

Dirs == { f.dir : f \in FILES }
FilePaths == { f.path : f \in FILES }
FileAt(p) == CHOOSE f \in FILES : f.path = p

\* the paths a caller may hand to add_model_config
AddablePaths == {"extra", "more/ViT-Z-99.json", "extra/notes.txt"}

---------------------------------------------------------------------------
(* The heap.  A config is three dict objects: the config itself and its     *)
(* nested vision_cfg and text_cfg, which the config holds by address.       *)

Nested == {"vision_cfg", "text_cfg"}
Addr(space, id, part) == <<space, id, part>>

\* the objects json.load / deepcopy create for the config value `json`,
\* placed at the addresses <<space, id, _>>
Store(h, space, id, json) ==
    LET parts == {"cfg"} \cup (Nested \cap DOMAIN json)
        new == { Addr(space, id, q) : q \in parts }
        top == [k \in DOMAIN json |-> IF k \in Nested THEN Addr(space, id, k) ELSE json[k]]
    IN [a \in DOMAIN h \cup new |->
          IF a \in new
            THEN (IF a[3] = "cfg" THEN top ELSE json[a[3]])
            ELSE h[a]]

\* the value of the config at address a, nested dicts included
DeepValue(h, a) ==
    [k \in DOMAIN h[a] |-> IF k \in Nested THEN h[h[a][k]] ELSE h[a][k]]

\* copy.deepcopy of the config at address a into the local slot `slot`
deepcopy(h, a, slot) == Store(h, "loc", slot, DeepValue(h, a))

\* drop the objects of a finished call
Free(h) == [a \in { x \in DOMAIN h : x[1] # "loc" } |-> h[a]]

---------------------------------------------------------------------------
(* _rescan_model_configs *)

RECURSIVE ConfigFiles(_)
\* lines 33-39: the config files of a list of paths, one set per path
ConfigFiles(paths) ==
    IF paths = <<>> THEN <<>>
    ELSE LET p == Head(paths)
             here == IF p \in FilePaths /\ FileAt(p).suffix \in {".json"}
                       THEN {FileAt(p)}
                     ELSE IF p \in Dirs
                       THEN { f \in FILES : f.dir = p /\ f.suffix = ".json" }
                     ELSE {}
         IN <<here>> \o ConfigFiles(Tail(paths))

\* line 44: a json file is a model config when it has these three keys
IsModelCfg(json) == {"embed_dim", "vision_cfg", "text_cfg"} \subseteq DOMAIN json

RECURSIVE StoreAll(_, _)
StoreAll(h, files) ==
    IF files = {} THEN h
    ELSE LET f == CHOOSE x \in files : TRUE
         IN StoreAll(Store(h, "reg", f.stem, f.json), files \ {f})

RECURSIVE LoadFiles(_, _)
\* lines 41-45: register every model config found, later files overriding
\* earlier ones of the same stem
LoadFiles(st, groups) ==
    IF groups = <<>> THEN st
    ELSE LET ok == { f \in Head(groups) : IsModelCfg(f.json) }
             names == DOMAIN st.configs \cup { f.stem : f \in ok }
         IN LoadFiles([configs |-> [n \in names |-> Addr("reg", n, "cfg")],
                       heap |-> StoreAll(st.heap, ok)],
                      Tail(groups))

\* every model name of the file system in _natural_key order
NaturalOrder ==
    <<"custom-ViT", "pre-only", "roberta-ViT", "timm-rn50", "timm-tower",
      "tower-laion", "tower-missing", "tower-openai", "ViT-B-32", "ViT-Z-99">>

\* the whole of _rescan_model_configs; line 47 re-sorts the registry by
\* _natural_key, so the key order is a function of the key set (list_models)
rescan_model_configs(configs, h, paths) ==
    LoadFiles([configs |-> configs, heap |-> h], ConfigFiles(paths))

list_models == SelectSeq(NaturalOrder, LAMBDA n : n \in DOMAIN MODEL_CONFIGS)

\* the registry as values: name -> config
RegistryValue == [n \in DOMAIN MODEL_CONFIGS |-> DeepValue(heap, MODEL_CONFIGS[n])]

InitialPaths == <<"model_configs">>
InitialRegistry == rescan_model_configs(EmptyDict, EmptyDict, InitialPaths)

---------------------------------------------------------------------------
(* get_model_config, get_cfg_and_handle_error, load_and_prepare_cfg.        *)
(* An operator that allocates or mutates takes the heap and returns the     *)
(* new heap next to its Python result.                                      *)

\* a variant of lines 66-70 that hands out the registered object itself, not a copy
get_model_config_shared(configs, h, model_name, slot) ==
    IF model_name \in DOMAIN configs
      THEN [heap |-> h, ref |-> configs[model_name]]
      ELSE [heap |-> h, ref |-> NoneAddr]

\* lines 66-70
get_model_config(configs, h, model_name, slot) ==
    IF model_name \in DOMAIN configs
      THEN [heap |-> deepcopy(h, configs[model_name], slot), ref |-> Addr("loc", slot, "cfg")]
      ELSE [heap |-> h, ref |-> NoneAddr]

\* lines 119-124, on what get_model_config returned
HandleError(r) ==
    [heap |-> r.heap, ref |-> r.ref, err |-> IF r.ref # NoneAddr THEN None ELSE "RuntimeError"]

\* lines 117-124
get_cfg_and_handle_error(configs, h, model_name, slot) ==
    HandleError(get_model_config(configs, h, model_name, slot))

\* the outcome of load_and_prepare_cfg when it raises
Raised(h, e) ==
    [heap |-> h, err |-> e, model_name |-> None, model_cfg |-> NoneAddr,
     custom_text |-> FALSE, which_pretrained_image_tower |-> None]

\* a variant of line 140 that forgets the 'pretrained' key of vision_cfg
PretrainedImage_ForgetsPretrainedKey(pretrained_image, vision_cfg) ==
    pretrained_image \/ Has(vision_cfg, "model_name")

\* line 140: whether a pretrained image tower is in effect
PretrainedImage(pretrained_image, vision_cfg) ==
    pretrained_image \/ Has(vision_cfg, "model_name") \/ Has(vision_cfg, "pretrained")

\* lines 159-161
ForceQuickGelu(h, mc, force_quick_gelu) ==
    IF force_quick_gelu THEN [h EXCEPT ![mc] = Put(h[mc], "quick_gelu", TRUE)] ELSE h

\* lines 163-165: the write goes to whatever dict model_cfg["vision_cfg"] is
ForcePatchDropout(h, mc, force_patch_dropout) ==
    IF force_patch_dropout # None
      THEN [h EXCEPT ![h[mc]["vision_cfg"]] = Put(h[h[mc]["vision_cfg"]], "patch_dropout", force_patch_dropout)]
      ELSE h

\* line 168, the value
CustomText(h, mc, force_custom_text) ==
    Get(h[mc], "custom_text", FALSE) \/ force_custom_text \/ Has(h[h[mc]["text_cfg"]], "hf_model_name")

\* line 168, the pop
PopCustomText(h, mc) == [h EXCEPT ![mc] = Del(h[mc], "custom_text")]

\* lines 169-171
HfPretrained(h, mc, custom_text, pretrained_hf) ==
    IF custom_text /\ Has(h[h[mc]["text_cfg"]], "hf_model_name")
      THEN [h EXCEPT ![h[mc]["text_cfg"]] = Put(h[h[mc]["text_cfg"]], "hf_model_pretrained", pretrained_hf)]
      ELSE h

\* lines 169-173, with custom_text computed and popped
ReturnCfg(h, mc, model_name, which, custom_text, pretrained_hf) ==
    [heap |-> HfPretrained(h, mc, custom_text, pretrained_hf), err |-> None,
     model_name |-> model_name, model_cfg |-> mc, custom_text |-> custom_text,
     which_pretrained_image_tower |-> which]

\* lines 168-173, on the heap after the forced overrides
CustomTextCfg(h, mc, model_name, which, force_custom_text, pretrained_hf) ==
    ReturnCfg(PopCustomText(h, mc), mc, model_name, which,
              CustomText(h, mc, force_custom_text), pretrained_hf)

\* lines 159-173, on the heap h with the config at mc
FinishCfg(h, mc, model_name, which, force_quick_gelu, force_patch_dropout, force_custom_text, pretrained_hf) ==
    CustomTextCfg(ForcePatchDropout(ForceQuickGelu(h, mc, force_quick_gelu), mc, force_patch_dropout),
                  mc, model_name, which, force_custom_text, pretrained_hf)

\* a variant of lines 150-154 that keeps the config's own vision_cfg when the
\* image model is not registered, instead of raising
ImageTowerCfg_IgnoresMissing(ri, mc, vision_cfg, force_quick_gelu, force_patch_dropout, force_custom_text, pretrained_hf) ==
    IF ri.err # None
      THEN FinishCfg(ri.heap, mc, vision_cfg["model_name"], None,
                     force_quick_gelu, force_patch_dropout, force_custom_text, pretrained_hf)
    ELSE FinishCfg([ri.heap EXCEPT ![mc] = Put(ri.heap[mc], "vision_cfg", ri.heap[ri.ref]["vision_cfg"])],
                   mc, vision_cfg["model_name"], Get(vision_cfg, "pretrained", "openai"),
                   force_quick_gelu, force_patch_dropout, force_custom_text, pretrained_hf)

\* lines 150-154, on the image model's config as looked up (ri): the config
\* takes over the vision_cfg dict of the copy of the image model's config
ImageTowerCfg(ri, mc, vision_cfg, force_quick_gelu, force_patch_dropout, force_custom_text, pretrained_hf) ==
    IF ri.err # None THEN Raised(ri.heap, ri.err)
    ELSE FinishCfg([ri.heap EXCEPT ![mc] = Put(ri.heap[mc], "vision_cfg", ri.heap[ri.ref]["vision_cfg"])],
                   mc, vision_cfg["model_name"], Get(vision_cfg, "pretrained", "openai"),
                   force_quick_gelu, force_patch_dropout, force_custom_text, pretrained_hf)

\* lines 137-173, with the config copied to mc and vision_cfg its vision dict
\* (line 139: every registered config has the key, so {} is never used)
PrepareCfg(configs, h, mc, vision_cfg, model_name, force_quick_gelu, force_patch_dropout, pretrained_image, force_custom_text, pretrained_hf) ==
    IF ~PretrainedImage(pretrained_image, vision_cfg)
      THEN FinishCfg(h, mc, model_name, None, force_quick_gelu, force_patch_dropout, force_custom_text, pretrained_hf)
    ELSE IF Has(vision_cfg, "timm_model_name")
      \* lines 143-145
      THEN FinishCfg([h EXCEPT ![h[mc]["vision_cfg"]] = Put(vision_cfg, "timm_model_pretrained", TRUE)],
                     mc, model_name, None, force_quick_gelu, force_patch_dropout, force_custom_text, pretrained_hf)
    ELSE IF Has(vision_cfg, "model_name")
      \* lines 148-154
      THEN ImageTowerCfg(get_cfg_and_handle_error(configs, h, vision_cfg["model_name"], "image_cfg"),
                         mc, vision_cfg, force_quick_gelu, force_patch_dropout, force_custom_text, pretrained_hf)
    \* line 157
    ELSE Raised(h, "AssertionError")

\* lines 135-173, on the config as looked up (r)
PrepareLooked(configs, r, model_name, force_quick_gelu, force_patch_dropout, pretrained_image, force_custom_text, pretrained_hf) ==
    IF r.err # None THEN Raised(r.heap, r.err)
    ELSE PrepareCfg(configs, r.heap, r.ref, r.heap[r.heap[r.ref]["vision_cfg"]], model_name,
                    force_quick_gelu, force_patch_dropout, pretrained_image, force_custom_text, pretrained_hf)

\* lines 126-173
load_and_prepare_cfg(configs, h, model_name, force_quick_gelu, force_patch_dropout, pretrained_image, force_custom_text, pretrained_hf) ==
    PrepareLooked(configs, get_cfg_and_handle_error(configs, h, model_name, "model_cfg"), model_name,
                  force_quick_gelu, force_patch_dropout, pretrained_image, force_custom_text, pretrained_hf)

---------------------------------------------------------------------------
(* Checkpoints.  A state dict is a Python dict in insertion order: a         *)
(* sequence of <<key, value>> pairs with distinct keys.  Keys are strings    *)
(* as sequences of characters, so that prefixes and slices are computed.     *)

S_module == <<"m", "o", "d", "u", "l", "e">>
S_visual == <<"v", "i", "s", "u", "a", "l">>
S_positional_embedding == <<"p", "o", "s", "i", "t", "i", "o", "n", "a", "l", "_", "e", "m", "b", "e", "d", "d", "i", "n", "g">>
S_text_projection == <<"t", "e", "x", "t", "_", "p", "r", "o", "j", "e", "c", "t", "i", "o", "n">>
S_text_dot == <<"t", "e", "x", "t", ".">>

\* str.startswith
startswith(k, prefix) == Len(k) >= Len(prefix) /\ SubSeq(k, 1, Len(prefix)) = prefix
\* k[n:]
SliceFrom(k, n) == SubSeq(k, n + 1, Len(k))

Keys(sd) == { sd[i][1] : i \in 1..Len(sd) }
Lookup(sd, k) == sd[CHOOSE i \in 1..Len(sd) : sd[i][1] = k][2]

\* d[k] = v on an ordered dict: an existing key keeps its place
SetItem(sd, k, v) ==
    IF k \in Keys(sd)
      THEN [i \in 1..Len(sd) |-> IF sd[i][1] = k THEN <<k, v>> ELSE sd[i]]
      ELSE Append(sd, <<k, v>>)

RECURSIVE DictFrom(_, _)
\* dict(pairs) / a dict comprehension over pairs: later duplicates overwrite
DictFrom(acc, pairs) ==
    IF pairs = <<>> THEN acc
    ELSE DictFrom(SetItem(acc, Head(pairs)[1], Head(pairs)[2]), Tail(pairs))

\* what torch.load returns: a training checkpoint holding the weights under
\* 'state_dict', or a bare state dict
StateDictOf(checkpoint) ==
    IF checkpoint.has_state_dict_key THEN checkpoint.state_dict ELSE checkpoint.items

\* lines 79-87; next(iter(...)) of an empty dict raises StopIteration
load_state_dict(checkpoint) ==
    LET state_dict == StateDictOf(checkpoint)
    IN IF state_dict = <<>> THEN [err |-> "StopIteration", state_dict |-> <<>>]
       ELSE IF startswith(state_dict[1][1], S_module)
         THEN [err |-> None,
               state_dict |-> DictFrom(<<>>, [i \in 1..Len(state_dict) |->
                                  <<SliceFrom(state_dict[i][1], 7), state_dict[i][2]>>])]
         ELSE [err |-> None, state_dict |-> state_dict]

\* model.py convert_to_custom_text_state_dict: an old-format state dict has its
\* text tower entries moved under 'text.'
convert_to_custom_text_state_dict(state_dict) ==
    IF S_text_projection \in Keys(state_dict)
      THEN DictFrom(<<>>, [i \in 1..Len(state_dict) |->
              IF startswith(state_dict[i][1], S_text_projection)
                   \/ startswith(state_dict[i][1], S_positional_embedding)
                THEN <<S_text_dot \o state_dict[i][1], state_dict[i][2]>>
                ELSE state_dict[i]])
      ELSE state_dict

\* the interpolated positional embedding
Resized(v) == v + 10

\* model.py resize_pos_embed: replaces state_dict['visual.positional_embedding']
\* in place when the model's grid differs from the checkpoint's
resize_pos_embed(state_dict, m) ==
    LET k == S_visual \o <<".">> \o S_positional_embedding
    IN IF k \in Keys(state_dict) /\ m.grid_differs
         THEN SetItem(state_dict, k, Resized(Lookup(state_dict, k)))
         ELSE state_dict

\* what load_checkpoint hands to model.visual.load_state_dict (lines 109-112);
\* filter keeps the order of the items it keeps
VisualItems(state_dict) ==
    LET kept == SelectSeq(state_dict, LAMBDA i : startswith(i[1], S_visual))
        prefix_length == Len(S_visual)
    IN DictFrom(<<>>, [i \in 1..Len(kept) |->
                         <<SliceFrom(kept[i][1], prefix_length + 1), kept[i][2]>>])

\* hasattr(model, 'positional_embedding'): CLIP has the parameter,
\* CustomTextCLIP keeps it inside its text tower
HasPositionalEmbedding(m) == m.cls = "CLIP"

\* lines 102-104
MaybeConvert(state_dict, m) ==
    IF S_positional_embedding \in Keys(state_dict) /\ ~HasPositionalEmbedding(m)
      THEN convert_to_custom_text_state_dict(state_dict)
      ELSE state_dict

\* lines 108-115, on the state dict as converted and resized.  m.loads records
\* every torch load_state_dict call made on the model or on its visual tower.
LoadInto(m, state_dict, strict, which_pretrained_image_tower) ==
    IF which_pretrained_image_tower # None
      THEN [err |-> None,
            model |-> [m EXCEPT !.loads = Append(@, [on |-> "visual", strict |-> strict,
                                                     state_dict |-> VisualItems(state_dict)])]]
      ELSE [err |-> None,
            model |-> [m EXCEPT !.loads = Append(@, [on |-> "model", strict |-> strict,
                                                     state_dict |-> state_dict])]]

\* lines 101-115, on what load_state_dict returned or raised (r)
LoadFrom(m, r, strict, which_pretrained_image_tower) ==
    IF r.err # None THEN [err |-> r.err, model |-> m]
    ELSE LoadInto(m, resize_pos_embed(MaybeConvert(r.state_dict, m), m), strict,
                  which_pretrained_image_tower)

\* lines 90-115
load_checkpoint(m, checkpoint, strict, which_pretrained_image_tower, pretrained_image_tower) ==
    IF pretrained_image_tower.present
      THEN [err |-> None, model |-> [m EXCEPT !.visual = pretrained_image_tower]]
      ELSE LoadFrom(m, load_state_dict(checkpoint), strict, which_pretrained_image_tower)

---------------------------------------------------------------------------
(* Models and the external calls create_model makes.                        *)

OPENAI_DATASET_MEAN == "OPENAI_DATASET_MEAN"
OPENAI_DATASET_STD == "OPENAI_DATASET_STD"

NoTower ==
    [present |-> FALSE, origin |-> "none", weights |-> "none", image_size |-> 0,
     image_mean |-> None, image_std |-> None]

NoModel ==
    [id |-> "none", cls |-> "none", name |-> None, cfg |-> EmptyDict, cast_dtype |-> None,
     visual |-> NoTower, text_weights |-> "none", grid_differs |-> FALSE, loads |-> <<>>,
     device |-> "none", lp |-> None, scripted |-> FALSE]

\* model.py get_cast_dtype
get_cast_dtype(precision) ==
    CASE precision = "bf16" -> "bfloat16"
      [] precision = "fp16" -> "float16"
      [] OTHER -> None

\* the image size a vision_cfg without image_size yields (CLIPVisionCfg default)
DefaultImageSize == 224

\* the object CLIP(**model_cfg, cast_dtype) / CustomTextCLIP(...) constructs
Construct(cls, cfg, cast_dtype) ==
    [id |-> cls, cls |-> cls, name |-> None, cfg |-> cfg, cast_dtype |-> cast_dtype,
     visual |-> [present |-> TRUE, origin |-> cls,
                 weights |-> IF Get(cfg["vision_cfg"], "timm_model_pretrained", FALSE)
                               THEN "timm_pretrained" ELSE "random",
                 image_size |-> Get(cfg["vision_cfg"], "image_size", DefaultImageSize),
                 image_mean |-> None, image_std |-> None],
     text_weights |-> IF Get(cfg["text_cfg"], "hf_model_pretrained", FALSE)
                        THEN "hf_pretrained" ELSE "random",
     grid_differs |-> Get(cfg["vision_cfg"], "image_size", DefaultImageSize) # DefaultImageSize,
     loads |-> <<>>, device |-> "cpu", lp |-> None, scripted |-> FALSE]

\* the architectures OpenAI published weights for
OpenAIModels == {"ViT-B-32"}

\* openai.py load_openai_model as create_model sees it: a complete pretrained
\* model of the named architecture, or RuntimeError for a name OpenAI never
\* published.  Whether its visual tower carries image_mean / image_std is the
\* callee's business (meta).
load_openai_model(name, precision, jit, meta) ==
    IF name \in OpenAIModels
      THEN [err |-> None,
            model |-> [id |-> "load_openai_model", cls |-> "CLIP", name |-> name, cfg |-> EmptyDict,
                       cast_dtype |-> None,
                       visual |-> [present |-> TRUE, origin |-> "load_openai_model", weights |-> "openai",
                                   image_size |-> DefaultImageSize,
                                   image_mean |-> meta.mean, image_std |-> meta.std],
                       text_weights |-> "openai", grid_differs |-> FALSE, loads |-> <<>>,
                       device |-> "set by load_openai_model", lp |-> precision, scripted |-> jit]]
      ELSE [err |-> "RuntimeError", model |-> NoModel]

OpenAIMeta ==
    { [mean |-> None, std |-> None],
      [mean |-> OPENAI_DATASET_MEAN, std |-> OPENAI_DATASET_STD] }

\* pretrained.py get_pretrained_cfg: the hub of named checkpoints
get_pretrained_cfg(model_name, tag) ==
    CASE model_name = "ViT-B-32" /\ tag = "laion400m" ->
           [url |-> "cache/vit_b_32-laion400m.pt", mean |-> "LAION_MEAN", std |-> "LAION_STD"]
      [] model_name = "roberta-ViT" /\ tag = "laion400m" ->
           [url |-> "cache/roberta-laion400m.pt"]
      [] model_name = "custom-ViT" /\ tag = "laion400m" ->
           [hf_hub |-> ""]
      [] OTHER -> EmptyDict

\* pretrained.py download_pretrained: the cached file of the cfg's url, '' when
\* the cfg names nothing to download
download_pretrained(pretrained_cfg) == Get(pretrained_cfg, "url", "")

K_visual_proj == <<"v", "i", "s", "u", "a", "l", ".", "p", "r", "o", "j">>
K_visual_underscore_proj == <<"v", "i", "s", "u", "a", "l", "_", "p", "r", "o", "j">>
K_visual_pos == <<"v", "i", "s", "u", "a", "l", ".", "p", "o", "s", "i", "t", "i", "o", "n", "a", "l", "_", "e", "m", "b", "e", "d", "d", "i", "n", "g">>
K_logit_scale == <<"l", "o", "g", "i", "t", "_", "s", "c", "a", "l", "e">>
K_positional_embedding == <<"p", "o", "s", "i", "t", "i", "o", "n", "a", "l", "_", "e", "m", "b", "e", "d", "d", "i", "n", "g">>
K_text_projection == <<"t", "e", "x", "t", "_", "p", "r", "o", "j", "e", "c", "t", "i", "o", "n">>
K_module_visual_proj == <<"m", "o", "d", "u", "l", "e", ".", "v", "i", "s", "u", "a", "l", ".", "p", "r", "o", "j">>
K_module_logit_scale == <<"m", "o", "d", "u", "l", "e", ".", "l", "o", "g", "i", "t", "_", "s", "c", "a", "l", "e">>
K_modules_w == <<"m", "o", "d", "u", "l", "e", "s", ".", "w">>

NoCheckpoint == [has_state_dict_key |-> FALSE, items |-> <<>>]

\* the checkpoint files on disk and what torch.load reads from them
torch_load(path) ==
    CASE path = "cache/vit_b_32-laion400m.pt" ->
           [has_state_dict_key |-> FALSE,
            items |-> << <<K_visual_proj, 1>>, <<K_visual_pos, 2>>, <<K_logit_scale, 1>> >>]
      [] path = "cache/roberta-laion400m.pt" ->
           [has_state_dict_key |-> TRUE,
            state_dict |-> << <<K_module_visual_proj, 1>>, <<K_module_logit_scale, 2>> >>]
      [] path = "local.pt" ->
           [has_state_dict_key |-> FALSE,
            items |-> << <<K_positional_embedding, 1>>, <<K_text_projection, 2>>, <<K_visual_proj, 1>> >>]
      [] OTHER -> NoCheckpoint

\* os.path.exists on the strings that occur as pretrained
os_path_exists(path) ==
    path \in {"cache/vit_b_32-laion400m.pt", "cache/roberta-laion400m.pt", "local.pt"}

---------------------------------------------------------------------------
(* create_model *)

\* line 205
ExtractOpenaiImageTower(which_pretrained_image_tower) ==
    which_pretrained_image_tower # None /\ Lower(which_pretrained_image_tower) = "openai"

\* line 206
PureOpenai(pretrained, extract_openai_image_tower) ==
    Truthy(pretrained) /\ Lower(pretrained) = "openai" /\ ~extract_openai_image_tower

\* what a create_model call leaves behind: the heap, the exception raised (or
\* None), the model returned, the external calls made in order, and the locals
Outcome(h, err, m, trace, p, locals) ==
    [heap |-> h, err |-> err, model |-> m, trace |-> trace,
     model_name |-> p.model_name, custom_text |-> p.custom_text,
     which_pretrained_image_tower |-> p.which_pretrained_image_tower,
     extract_openai_image_tower |-> locals.extract, pure_openai |-> locals.pure,
     pretrained |-> locals.pretrained, pretrained_cfg |-> locals.pretrained_cfg,
     checkpoint_path |-> locals.checkpoint_path]

Locals(extract, pure, pretrained, pretrained_cfg, checkpoint_path) ==
    [extract |-> extract, pure |-> pure, pretrained |-> pretrained,
     pretrained_cfg |-> pretrained_cfg, checkpoint_path |-> checkpoint_path]

\* line 255
ToDevice(m) == [m EXCEPT !.device = "moved to device"]

\* lines 256-257
ConvertLp(m, precision) ==
    IF precision \in {"fp16", "bf16"}
      THEN [m EXCEPT !.lp = IF precision = "bf16" THEN "bfloat16" ELSE "float16"]
      ELSE m

\* lines 259-261
SetMeanStd(m, pretrained_cfg) ==
    [m EXCEPT !.visual.image_mean = IF Truthy(Get(pretrained_cfg, "mean", None))
                                      THEN pretrained_cfg["mean"] ELSE OPENAI_DATASET_MEAN,
              !.visual.image_std = IF Truthy(Get(pretrained_cfg, "std", None))
                                     THEN pretrained_cfg["std"] ELSE OPENAI_DATASET_STD]

\* lines 263-264: torch.jit.script returns a new object
Script(m, jit) == IF jit THEN [m EXCEPT !.id = "torch.jit.script", !.scripted = TRUE] ELSE m

\* lines 255-264: device move, precision cast, mean / std metadata, scripting
Finish(m, precision, jit, pretrained_cfg) ==
    Script(SetMeanStd(ConvertLp(ToDevice(m), precision), pretrained_cfg), jit)

\* a variant of lines 255-264 that scripts the model before casting it
FinishTrace_ScriptsFirst(precision, jit) ==
    (IF jit THEN <<"torch.jit.script">> ELSE <<>>)
      \o <<"model.to">>
      \o (IF precision \in {"fp16", "bf16"} THEN <<"convert_weights_to_lp">> ELSE <<>>)
      \o <<"set image_mean image_std">>

FinishTrace(precision, jit) ==
    <<"model.to">>
      \o (IF precision \in {"fp16", "bf16"} THEN <<"convert_weights_to_lp">> ELSE <<>>)
      \o <<"set image_mean image_std">>
      \o (IF jit THEN <<"torch.jit.script">> ELSE <<>>)

\* lines 242-264, on what load_checkpoint returned or raised (ld)
Loaded(a, p, locals, ld, t) ==
    IF ld.err # None
      THEN Outcome(p.heap, ld.err, NoModel, t, p, locals)
      ELSE Outcome(p.heap, None, Finish(ld.model, a.precision, a.jit, locals.pretrained_cfg),
                   t \o FinishTrace(a.precision, a.jit), p, locals)

\* a variant of lines 240-264 that only warns (line 252) when the pretrained
\* weights are not found, and goes on with the model as constructed
LoadOrRaise_WarnsOnly(a, p, extract, tower, m0, pretrained, pretrained_cfg, checkpoint_path, t) ==
    IF Truthy(checkpoint_path) \/ extract
      THEN Loaded(a, p, Locals(extract, FALSE, pretrained, pretrained_cfg, checkpoint_path),
                  load_checkpoint(m0,
                                  IF Truthy(checkpoint_path) THEN torch_load(checkpoint_path) ELSE NoCheckpoint,
                                  TRUE, p.which_pretrained_image_tower, tower),
                  Append(t, "load_checkpoint"))
    ELSE Outcome(p.heap, None, Finish(m0, a.precision, a.jit, pretrained_cfg),
                 t \o FinishTrace(a.precision, a.jit), p,
                 Locals(extract, FALSE, pretrained, pretrained_cfg, checkpoint_path))

\* lines 240-264
LoadOrRaise(a, p, extract, tower, m0, pretrained, pretrained_cfg, checkpoint_path, t) ==
    IF Truthy(checkpoint_path) \/ extract
      THEN Loaded(a, p, Locals(extract, FALSE, pretrained, pretrained_cfg, checkpoint_path),
                  load_checkpoint(m0,
                                  IF Truthy(checkpoint_path) THEN torch_load(checkpoint_path) ELSE NoCheckpoint,
                                  TRUE, p.which_pretrained_image_tower, tower),
                  Append(t, "load_checkpoint"))
    ELSE IF Truthy(pretrained)
      THEN Outcome(p.heap, "RuntimeError", NoModel, t, p,
                   Locals(extract, FALSE, pretrained, pretrained_cfg, checkpoint_path))
    ELSE Outcome(p.heap, None, Finish(m0, a.precision, a.jit, pretrained_cfg),
                 t \o FinishTrace(a.precision, a.jit), p,
                 Locals(extract, FALSE, pretrained, pretrained_cfg, checkpoint_path))

\* lines 235-264, on what get_pretrained_cfg returned
Resolved(a, p, extract, tower, m0, pretrained, pretrained_cfg, t) ==
    IF DOMAIN pretrained_cfg # {}
      THEN LoadOrRaise(a, p, extract, tower, m0, pretrained, pretrained_cfg,
                       download_pretrained(pretrained_cfg), Append(t, "download_pretrained"))
    ELSE IF os_path_exists(pretrained)
      THEN LoadOrRaise(a, p, extract, tower, m0, pretrained, pretrained_cfg, pretrained, t)
    ELSE LoadOrRaise(a, p, extract, tower, m0, pretrained, pretrained_cfg, None, t)

\* lines 230-264, on the model as constructed (m0) and pretrained as rebound
Resolve(a, p, extract, process, tower, m0, pretrained, t) ==
    IF Truthy(pretrained) /\ ~process
      THEN Resolved(a, p, extract, tower, m0, pretrained,
                    get_pretrained_cfg(p.model_name, pretrained), Append(t, "get_pretrained_cfg"))
      ELSE LoadOrRaise(a, p, extract, tower, m0, pretrained, EmptyDict, None, t)

\* lines 221-264: the branch taken when the result is not the OpenAI model itself
BuildModel(a, p, cast_dtype, extract, process, tower, t) ==
    Resolve(a, p, extract, process, tower,
            Construct(IF p.custom_text THEN "CustomTextCLIP" ELSE "CLIP",
                      DeepValue(p.heap, p.model_cfg), cast_dtype),
            IF p.which_pretrained_image_tower # None THEN p.which_pretrained_image_tower ELSE a.pretrained,
            Append(t, IF p.custom_text THEN "CustomTextCLIP" ELSE "CLIP"))

\* a variant of lines 219-266 that runs lines 255-264 on the OpenAI model too
OpenaiLoaded_FinishesPure(a, p, cast_dtype, extract, pure, oa, t) ==
    IF oa.err # None
      THEN Outcome(p.heap, oa.err, NoModel, t, p, Locals(extract, pure, a.pretrained, EmptyDict, None))
    ELSE IF pure
      THEN Outcome(p.heap, None, Finish(oa.model, a.precision, a.jit, EmptyDict), t, p,
                   Locals(extract, pure, a.pretrained, EmptyDict, None))
    ELSE BuildModel(a, p, cast_dtype, extract, TRUE,
                    IF extract THEN oa.model.visual ELSE NoTower, t)

\* lines 219-266, on what load_openai_model returned or raised (oa)
OpenaiLoaded(a, p, cast_dtype, extract, pure, oa, t) ==
    IF oa.err # None
      THEN Outcome(p.heap, oa.err, NoModel, t, p, Locals(extract, pure, a.pretrained, EmptyDict, None))
    ELSE IF pure
      THEN Outcome(p.heap, None, oa.model, t, p, Locals(extract, pure, a.pretrained, EmptyDict, None))
    ELSE BuildModel(a, p, cast_dtype, extract, TRUE,
                    IF extract THEN oa.model.visual ELSE NoTower, t)

\* lines 207-266
Process(a, p, cast_dtype, extract, pure, meta, t) ==
    IF extract \/ pure
      THEN OpenaiLoaded(a, p, cast_dtype, extract, pure,
                        load_openai_model(p.model_name, a.precision, a.jit, meta),
                        Append(t, "load_openai_model"))
      ELSE BuildModel(a, p, cast_dtype, extract, FALSE, NoTower, t)

\* lines 206-266
Decide(a, p, cast_dtype, extract, meta, t) ==
    Process(a, p, cast_dtype, extract, PureOpenai(a.pretrained, extract), meta, t)

\* lines 205-266, on what load_and_prepare_cfg returned or raised (p)
Prepared(a, p, cast_dtype, meta, t) ==
    IF p.err # None
      THEN Outcome(p.heap, p.err, NoModel, t, p, Locals(FALSE, FALSE, a.pretrained, EmptyDict, None))
      ELSE Decide(a, p, cast_dtype, ExtractOpenaiImageTower(p.which_pretrained_image_tower), meta, t)

\* lines 175-266.  device and cache_dir are only passed on and are left out.
\* meta is what load_openai_model leaves on the visual tower it returns.
create_model(configs, h, a, meta) ==
    Prepared(a,
             load_and_prepare_cfg(configs, h, ReplaceSlash(a.model_name), a.force_quick_gelu,
                                  a.force_patch_dropout, a.pretrained_image, a.force_custom_text,
                                  a.pretrained_hf),
             get_cast_dtype(a.precision), meta, <<"load_and_prepare_cfg">>)

\* transform.py image_transform: the pipeline is determined by its arguments
image_transform(image_size, is_train, mean, std) ==
    [image_size |-> image_size, is_train |-> is_train, mean |-> mean, std |-> std]

NoTransform == image_transform(0, FALSE, None, None)

\* a variant of lines 298-313 whose validation pipeline ignores the caller's
\* image_mean and image_std
create_model_and_transforms_ValIgnoresCaller(m, image_mean, image_std) ==
    [model |-> m,
     preprocess_train |-> image_transform(m.visual.image_size, TRUE,
                                          IF Truthy(image_mean) THEN image_mean ELSE m.visual.image_mean,
                                          IF Truthy(image_std) THEN image_std ELSE m.visual.image_std),
     preprocess_val |-> image_transform(m.visual.image_size, FALSE, m.visual.image_mean, m.visual.image_std)]

\* lines 298-313, on the model create_model returned
create_model_and_transforms(m, image_mean, image_std) ==
    LET mean == IF Truthy(image_mean) THEN image_mean ELSE m.visual.image_mean
        std == IF Truthy(image_std) THEN image_std ELSE m.visual.image_std
    IN [model |-> m,
        preprocess_train |-> image_transform(m.visual.image_size, TRUE, mean, std),
        preprocess_val |-> image_transform(m.visual.image_size, FALSE, mean, std)]

---------------------------------------------------------------------------
(* The calls a client can make, and their arguments *)

ModelNames ==
    {"ViT-B-32", "ViT-B/32", "timm-rn50", "roberta-ViT", "custom-ViT", "tower-openai",
     "tower-laion", "tower-missing", "timm-tower", "pre-only", "nope"}
Pretraineds == {None, "", "openai", "OpenAI", "laion400m", "local.pt", "bogus"}
Precisions == {"fp32", "fp16", "bf16"}
PatchDropouts == {None, "0.5"}
ImageMeans == {None, "CALLER_MEAN"}
ImageStds == {None, "CALLER_STD"}

\* the config switches of create_model and their defaults (lines 181-185)
Flags ==
    [force_quick_gelu : BOOLEAN, force_custom_text : BOOLEAN, force_patch_dropout : PatchDropouts,
     pretrained_image : BOOLEAN, pretrained_hf : BOOLEAN]
DefaultFlags ==
    [force_quick_gelu |-> FALSE, force_custom_text |-> FALSE, force_patch_dropout |-> None,
     pretrained_image |-> FALSE, pretrained_hf |-> TRUE]

MkArgs(model_name, pretrained, precision, jit, f) ==
    [model_name |-> model_name, pretrained |-> pretrained, precision |-> precision, jit |-> jit,
     force_quick_gelu |-> f.force_quick_gelu, force_custom_text |-> f.force_custom_text,
     force_patch_dropout |-> f.force_patch_dropout, pretrained_image |-> f.pretrained_image,
     pretrained_hf |-> f.pretrained_hf]

\* the pretrained values tried together with the config switches
SwitchPretraineds == {None, "openai", "OpenAI", "laion400m"}

\* the create_model calls explored: every model name with every combination
\* of the config switches at the default precision and jit, and with every
\* pretrained value, precision and jit at the default switches
CreateModelArgs ==
    { MkArgs(n, p, "fp32", FALSE, f) : n \in ModelNames, p \in SwitchPretraineds, f \in Flags }
      \cup { MkArgs(n, p, pr, j, DefaultFlags) :
               n \in ModelNames, p \in Pretraineds, pr \in Precisions, j \in BOOLEAN }

\* the create_model_and_transforms calls explored: the switches at their defaults
TransformArgs ==
    { MkArgs(n, p, "fp32", j, DefaultFlags) : n \in ModelNames, p \in Pretraineds, j \in BOOLEAN }

Idle == [op |-> "idle"]
NoRet == [err |-> None]

Init ==
    /\ MODEL_CONFIG_PATHS = InitialPaths
    /\ MODEL_CONFIGS = InitialRegistry.configs
    /\ heap = InitialRegistry.heap
    /\ call = Idle
    /\ ret = NoRet

\* lines 58-63
add_model_config(path) ==
    /\ call.op = "idle"
    /\ Len(MODEL_CONFIG_PATHS) < MaxPaths
    /\ LET paths == Append(MODEL_CONFIG_PATHS, path)
           r == rescan_model_configs(MODEL_CONFIGS, heap, paths)
       IN /\ MODEL_CONFIG_PATHS' = paths
          /\ MODEL_CONFIGS' = r.configs
          /\ heap' = r.heap
    /\ call' = [op |-> "add_model_config", path |-> path]
    /\ ret' = NoRet

\* the caller of get_model_config holds r.ref; the copy is its own
GotModelConfig(r) ==
    /\ heap' = Free(r.heap)
    /\ ret' = [err |-> None, found |-> r.ref # NoneAddr,
               cfg |-> IF r.ref # NoneAddr THEN DeepValue(r.heap, r.ref) ELSE EmptyDict]

\* a client calls get_model_config (lines 66-70) and gets a config value or None
CallGetModelConfig(model_name) ==
    /\ call.op = "idle"
    /\ GotModelConfig(get_model_config(MODEL_CONFIGS, heap, model_name, "model_cfg"))
    /\ call' = [op |-> "get_model_config", model_name |-> model_name]
    /\ UNCHANGED <<MODEL_CONFIG_PATHS, MODEL_CONFIGS>>

\* create_model is over: its locals are garbage, r is what the caller sees
Created(r) ==
    /\ heap' = Free(r.heap)
    /\ ret' = Del(r, "heap")

\* a client calls create_model (lines 175-266)
CallCreateModel(a, meta) ==
    /\ call.op = "idle"
    /\ Created(create_model(MODEL_CONFIGS, heap, a, meta))
    /\ call' = [op |-> "create_model", args |-> a, openai_meta |-> meta]
    /\ UNCHANGED <<MODEL_CONFIG_PATHS, MODEL_CONFIGS>>

\* lines 284-313, on the outcome r of create_model: its exception propagates
CreatedWithTransforms(r, image_mean, image_std) ==
    /\ heap' = Free(r.heap)
    /\ ret' = [x \in (DOMAIN r \ {"heap"}) \cup {"preprocess_train", "preprocess_val"} |->
                 CASE x = "preprocess_train" ->
                        IF r.err = None
                          THEN create_model_and_transforms(r.model, image_mean, image_std).preprocess_train
                          ELSE NoTransform
                   [] x = "preprocess_val" ->
                        IF r.err = None
                          THEN create_model_and_transforms(r.model, image_mean, image_std).preprocess_val
                          ELSE NoTransform
                   [] OTHER -> r[x]]

\* a client calls create_model_and_transforms (lines 269-313)
CallCreateModelAndTransforms(a, meta, image_mean, image_std) ==
    /\ call.op = "idle"
    /\ CreatedWithTransforms(create_model(MODEL_CONFIGS, heap, a, meta), image_mean, image_std)
    /\ call' = [op |-> "create_model_and_transforms", args |-> a, openai_meta |-> meta,
                image_mean |-> image_mean, image_std |-> image_std]
    /\ UNCHANGED <<MODEL_CONFIG_PATHS, MODEL_CONFIGS>>

\* the client is done with the result and may make the next call
Return ==
    /\ call.op # "idle"
    /\ call' = Idle
    /\ ret' = NoRet
    /\ UNCHANGED <<MODEL_CONFIG_PATHS, MODEL_CONFIGS, heap>>

Next ==
    \/ \E path \in AddablePaths : add_model_config(path)
    \/ \E n \in ModelNames : CallGetModelConfig(n)
    \/ \E a \in CreateModelArgs, meta \in OpenAIMeta : CallCreateModel(a, meta)
    \/ \E a \in TransformArgs, meta \in OpenAIMeta, image_mean \in ImageMeans, image_std \in ImageStds :
          CallCreateModelAndTransforms(a, meta, image_mean, image_std)
    \/ Return

Spec == Init /\ [][Next]_vars

---------------------------------------------------------------------------
(* Direct calls of load_state_dict and load_checkpoint on checkpoints of     *)
(* every shape within the bound.                                             *)

KeyPool ==
    {K_visual_proj, K_visual_underscore_proj, K_visual_pos, K_logit_scale, K_positional_embedding,
     K_text_projection, K_module_visual_proj, K_module_logit_scale, K_modules_w}
Values == {1, 2}

RECURSIVE StateDicts(_)
\* every state dict of at most n entries
StateDicts(n) ==
    IF n = 0 THEN {<<>>}
    ELSE LET S == StateDicts(n - 1)
         IN S \cup { Append(sd, <<k, v>>) :
                       sd \in { x \in S : Len(x) = n - 1 }, k \in KeyPool, v \in Values }

\* ... with distinct keys, as a dict has
Dicts == { sd \in StateDicts(MaxEntries) : Cardinality(Keys(sd)) = Len(sd) }

Checkpoints ==
    { [has_state_dict_key |-> TRUE, state_dict |-> sd, epoch |-> 3] : sd \in Dicts }
      \cup { [has_state_dict_key |-> FALSE, items |-> sd] : sd \in Dicts }

\* the models handed to load_checkpoint
CheckpointModels == { Construct("CLIP", VitB32, None), Construct("CustomTextCLIP", VitB32Extra, None) }

OpenaiTower == load_openai_model("ViT-B-32", "fp32", FALSE, [mean |-> None, std |-> None]).model.visual

\* a client calls load_state_dict (lines 79-87) on a checkpoint file
CallLoadStateDict(checkpoint) ==
    /\ call.op = "idle"
    /\ call' = [op |-> "load_state_dict", checkpoint |-> checkpoint]
    /\ ret' = load_state_dict(checkpoint)
    /\ UNCHANGED <<MODEL_CONFIG_PATHS, MODEL_CONFIGS, heap>>

\* a client calls load_checkpoint (lines 90-115)
CallLoadCheckpoint(m, checkpoint, strict, which, tower) ==
    /\ call.op = "idle"
    /\ call' = [op |-> "load_checkpoint", model |-> m, checkpoint |-> checkpoint, strict |-> strict,
                which_pretrained_image_tower |-> which, pretrained_image_tower |-> tower]
    /\ ret' = load_checkpoint(m, checkpoint, strict, which, tower)
    /\ UNCHANGED <<MODEL_CONFIG_PATHS, MODEL_CONFIGS, heap>>

NextCheckpoint ==
    \/ \E c \in Checkpoints : CallLoadStateDict(c)
    \/ \E m \in CheckpointModels, c \in Checkpoints, strict \in BOOLEAN, which \in {None, "laion400m"} :
          CallLoadCheckpoint(m, c, strict, which, NoTower)
    \/ \E m \in CheckpointModels, strict \in BOOLEAN, which \in {None, "openai"} :
          CallLoadCheckpoint(m, NoCheckpoint, strict, which, OpenaiTower)
    \/ Return

SpecCheckpoint == Init /\ [][NextCheckpoint]_vars

---------------------------------------------------------------------------
(* Properties *)

IsCreate == call.op \in {"create_model", "create_model_and_transforms"}
Returned == IsCreate /\ ret.err = None

\* the name create_model looks up (line 188) and, when registered, its config
RequestedName == ReplaceSlash(call.args.model_name)
Registered == RequestedName \in DOMAIN MODEL_CONFIGS
RequestedCfg == RegistryValue[RequestedName]
RequestedVision == RequestedCfg["vision_cfg"]

\* the config names a pre-defined image tower and is no timm config
NamesImageTower ==
    Registered /\ Has(RequestedVision, "model_name") /\ ~Has(RequestedVision, "timm_model_name")

\* the phase of each call in a create_model trace
Phase(e) ==
    CASE e = "load_and_prepare_cfg" -> 1
      [] e \in {"CLIP", "CustomTextCLIP"} -> 2
      [] e \in {"load_openai_model", "get_pretrained_cfg", "download_pretrained", "load_checkpoint"} -> 3
      [] e \in {"model.to", "convert_weights_to_lp", "set image_mean image_std"} -> 4
      [] e = "torch.jit.script" -> 5

InPhaseOrder(t) == \A i, j \in 1..Len(t) : i < j => Phase(t[i]) <= Phase(t[j])

\* C1 as stated: in every create_model call that returns, the phases occur in
\* the order resolve config, instantiate, load weights, cast, wrap.
C1_PhasesInOrder == Returned => InPhaseOrder(ret.trace)

\* C1 amended: the phases occur in that order, except that load_openai_model,
\* when it is called at all, runs right after the config is resolved - so
\* before the network is instantiated when the OpenAI model only supplies the
\* image tower; without that call the whole trace is in phase order, and
\* resolving the config always comes first.
C1_PhasesInOrderButOpenai ==
    Returned =>
        /\ ret.trace[1] = "load_and_prepare_cfg"
        /\ InPhaseOrder(SelectSeq(ret.trace, LAMBDA e : e # "load_openai_model"))
        /\ "load_openai_model" \in { ret.trace[i] : i \in 1..Len(ret.trace) }
             => /\ ret.trace[2] = "load_openai_model"
                /\ ret.extract_openai_image_tower \/ ret.pure_openai
                /\ ret.pure_openai => Len(ret.trace) = 2
        /\ ~ret.extract_openai_image_tower => InPhaseOrder(ret.trace)

C1_Witness ==
    /\ Returned
    /\ ret.extract_openai_image_tower
    /\ ret.trace = <<"load_and_prepare_cfg", "load_openai_model", "CLIP", "load_checkpoint", "model.to",
                     "convert_weights_to_lp", "set image_mean image_std", "torch.jit.script">>

\* nothing was instantiated, loaded, downloaded or read
NothingBuilt == ret.trace = <<"load_and_prepare_cfg">> /\ ret.model = NoModel

\* C2: create_model raises RuntimeError when the requested name is not
\* registered, and when the config names an unregistered image model (no timm
\* config); in both cases before anything is instantiated, loaded or downloaded.
C2_UnknownConfigRaisesFirst ==
    IsCreate =>
        /\ ~Registered => ret.err = "RuntimeError" /\ NothingBuilt
        /\ NamesImageTower /\ RequestedVision["model_name"] \notin DOMAIN MODEL_CONFIGS
             => ret.err = "RuntimeError" /\ NothingBuilt

C2_Witness ==
    /\ IsCreate
    /\ NamesImageTower
    /\ RequestedVision["model_name"] \notin DOMAIN MODEL_CONFIGS
    /\ ret.err = "RuntimeError"

\* the model carries pretrained weights put there by load_openai_model or by
\* load_checkpoint
WeightsLoaded(m) ==
    \/ m.text_weights = "openai"
    \/ m.visual.weights = "openai"
    \/ Len(m.loads) > 0

UnsupportedImageTower ==
    /\ Registered
    /\ call.args.pretrained_image \/ Has(RequestedVision, "model_name") \/ Has(RequestedVision, "pretrained")
    /\ ~Has(RequestedVision, "timm_model_name")
    /\ ~Has(RequestedVision, "model_name")

C4_TransformsAgree ==
    call.op = "create_model_and_transforms" /\ ret.err = None =>
        /\ ret.preprocess_train.is_train /\ ~ret.preprocess_val.is_train
        /\ ret.preprocess_train.image_size = ret.model.visual.image_size
        /\ ret.preprocess_val = [ret.preprocess_train EXCEPT !.is_train = FALSE]
        /\ ret.preprocess_val.mean =
             IF call.image_mean # None THEN call.image_mean ELSE ret.model.visual.image_mean
        /\ ret.preprocess_val.std =
             IF call.image_std # None THEN call.image_std ELSE ret.model.visual.image_std
        /\ ~ret.pure_openai =>
             /\ ret.model.visual.image_mean =
                  IF Has(ret.pretrained_cfg, "mean") THEN ret.pretrained_cfg["mean"] ELSE OPENAI_DATASET_MEAN
             /\ ret.model.visual.image_std =
                  IF Has(ret.pretrained_cfg, "std") THEN ret.pretrained_cfg["std"] ELSE OPENAI_DATASET_STD

C4_Witness ==
    /\ call.op = "create_model_and_transforms"
    /\ ret.err = None
    /\ call.image_mean = None
    /\ call.image_std = "CALLER_STD"
    /\ ret.preprocess_train.mean = "LAION_MEAN"
    /\ ret.preprocess_val.std = "CALLER_STD"

\* the config of the image model a tower config names
ImageModelCfg == RegistryValue[RequestedVision["model_name"]]

\* d holds every entry of e
Includes(d, e) == \A k \in DOMAIN e : k \in DOMAIN d /\ d[k] = e[k]

\* the source the tower config names for its image weights (default 'openai')
TowerSource == Get(RequestedVision, "pretrained", "openai")

\* C5: for a config naming a pre-defined image tower (no timm config) and any
\* pretrained argument, a create_model call that returns yields a model built
\* from the requested config (its embed_dim and text_cfg, the image model's
\* vision_cfg) in which only the visual tower is pretrained, from the source
\* the config names; the text tower is not loaded and the result is not a
\* complete pretrained model of the image tower's architecture.
C5_OnlyVisualTowerPretrained ==
    Returned /\ NamesImageTower =>
        /\ ret.model.id # "load_openai_model"
        /\ ret.model.text_weights = "random"
        /\ ret.model.cfg["embed_dim"] = RequestedCfg["embed_dim"]
        /\ Includes(ret.model.cfg["text_cfg"], RequestedCfg["text_cfg"])
        /\ Includes(ret.model.cfg["vision_cfg"], ImageModelCfg["vision_cfg"])
        /\ IF Lower(TowerSource) = "openai"
             THEN ret.model.visual.weights = "openai" /\ ret.model.loads = <<>>
             ELSE /\ ret.pretrained = TowerSource
                  /\ Len(ret.model.loads) = 1
                  /\ ret.model.loads[1].on = "visual"

\* the part of C5 the code keeps: the same, for calls other than those with
\* pretrained 'openai' on a config whose tower source is not OpenAI
C5_HoldsOffPureOpenai ==
    Returned /\ NamesImageTower /\ ~ret.pure_openai => C5_OnlyVisualTowerPretrained

\* the state dict load_checkpoint filters: as read, converted and resized
FilteredFrom ==
    resize_pos_embed(MaybeConvert(load_state_dict(call.checkpoint).state_dict, call.model), call.model)

S_visual_dot == S_visual \o <<".">>
S_module_dot == S_module \o <<".">>

\* the entries of the 'visual.' submodule under their keys without the prefix
VisualSubmodule(sd) ==
    LET kept == SelectSeq(sd, LAMBDA it : startswith(it[1], S_visual_dot))
    IN [i \in 1..Len(kept) |-> <<SliceFrom(kept[i][1], Len(S_visual_dot)), kept[i][2]>>]

\* C6: load_checkpoint with which_pretrained_image_tower set and no tower
\* object loads into model.visual exactly the entries of the 'visual.'
\* submodule, each under its key without that prefix, and nothing into the
\* whole model.
C6_LoadsVisualSubmodule ==
    /\ call.op = "load_checkpoint"
    /\ call.which_pretrained_image_tower # None
    /\ ~call.pretrained_image_tower.present
    /\ ret.err = None
    => /\ Len(ret.model.loads) = 1
       /\ ret.model.loads[1].on = "visual"
       /\ ret.model.loads[1].state_dict = VisualSubmodule(FilteredFrom)

\* C7: for a non-empty checkpoint of either shape, load_state_dict returns one
\* entry per entry of the state dict, with the 'module.' prefix removed from
\* every key that has it, every other key and every value unchanged.
C7_StripsModulePrefix ==
    call.op = "load_state_dict" /\ StateDictOf(call.checkpoint) # <<>> =>
        /\ ret.err = None
        /\ Len(ret.state_dict) = Len(StateDictOf(call.checkpoint))
        /\ \A i \in 1..Len(ret.state_dict) :
             LET it == StateDictOf(call.checkpoint)[i]
             IN ret.state_dict[i] =
                  <<IF startswith(it[1], S_module_dot) THEN SliceFrom(it[1], Len(S_module_dot)) ELSE it[1],
                    it[2]>>

\* C8: the assertion of load_and_prepare_cfg fails exactly when a pretrained
\* image tower is in effect and vision_cfg has neither timm_model_name nor
\* model_name.
C8_AssertionExactly ==
    IsCreate => (ret.err = "AssertionError" <=> UnsupportedImageTower)

C8_Witness ==
    /\ IsCreate
    /\ ret.err = "AssertionError"
    /\ ~call.args.pretrained_image
    /\ Has(RequestedVision, "pretrained")

\* the config names an OpenAI image tower to extract
NamesOpenaiTower == NamesImageTower /\ Lower(TowerSource) = "openai"

\* C9: with pretrained 'openai' (in any case) and no OpenAI image tower to
\* extract, the model returned is the object load_openai_model returned,
\* untouched: nothing is instantiated, load_checkpoint is not called, and
\* create_model moves, converts, annotates and scripts nothing.
C9_PureOpenaiUntouched ==
    /\ Returned
    /\ Truthy(call.args.pretrained)
    /\ Lower(call.args.pretrained) = "openai"
    /\ ~NamesOpenaiTower
    => /\ ret.trace = <<"load_and_prepare_cfg", "load_openai_model">>
       /\ ret.model = load_openai_model(ret.model_name, call.args.precision, call.args.jit,
                                        call.openai_meta).model

C9_Witness ==
    /\ Returned
    /\ call.args.pretrained = "OpenAI"
    /\ call.args.force_quick_gelu /\ call.args.force_custom_text
    /\ call.args.force_patch_dropout # None
    /\ call.openai_meta.mean = None
    /\ ret.model.id = "load_openai_model"

\* C10: no call but add_model_config changes the registry: every registered
\* config keeps its value, and get_model_config hands out that value.
C10_RegistryIsolated ==
    [][/\ call'.op # "add_model_config"
          => /\ RegistryValue' = RegistryValue
             /\ MODEL_CONFIG_PATHS' = MODEL_CONFIG_PATHS
       /\ call'.op = "get_model_config" /\ ret'.found
          => ret'.cfg = RegistryValue[call'.model_name]]_vars

C10_Witness ==
    /\ Returned
    /\ NamesImageTower
    /\ call.args.force_quick_gelu
    /\ call.args.force_patch_dropout # None
    /\ Has(ret.model.cfg["vision_cfg"], "patch_dropout")
    /\ ~Has(ImageModelCfg["vision_cfg"], "patch_dropout")

====
